---- MODULE Spec2Model ----
(***************************************************************************)
(* A model of scripts/auto_indent.py: the markup re-indenter format_html,  *)
(* the stylesheet re-indenter format_css, the dispatcher process_file and  *)
(* the entry point main.                                                   *)
(*                                                                         *)
(* A text is a sequence of one-character strings, so that the character    *)
(* level operations of the program (strip, split, replace, the tokenizer's *)
(* regular expression) are computed as the program computes them.         *)
(***************************************************************************)
EXTENDS Integers, Sequences, FiniteSets, TLC

(***************************************************************************)
(* Characters and the str methods the program uses.                        *)
(***************************************************************************)

LowerLetters ==
  << "a", "b", "c", "d", "e", "f", "g", "h", "i", "j", "k", "l", "m",
     "n", "o", "p", "q", "r", "s", "t", "u", "v", "w", "x", "y", "z" >>

UpperLetters ==
  << "A", "B", "C", "D", "E", "F", "G", "H", "I", "J", "K", "L", "M",
     "N", "O", "P", "Q", "R", "S", "T", "U", "V", "W", "X", "Y", "Z" >>

Digits == { "0", "1", "2", "3", "4", "5", "6", "7", "8", "9" }

\* The whitespace of str.strip(), str.split() and the regular expression's \s
\* (the characters of it that a text of the model can hold).
IsSpace(c) == c \in { " ", "\t", "\n", "\r", "\f" }

\* str.lower() and str.upper(), one character.
LowerChar(c) ==
  IF \E k \in 1..26 : UpperLetters[k] = c
    THEN LowerLetters[CHOOSE k \in 1..26 : UpperLetters[k] = c]
    ELSE c

UpperChar(c) ==
  IF \E k \in 1..26 : LowerLetters[k] = c
    THEN UpperLetters[CHOOSE k \in 1..26 : LowerLetters[k] = c]
    ELSE c

Lower(s) == [k \in 1..Len(s) |-> LowerChar(s[k])]

Upper(s) == [k \in 1..Len(s) |-> UpperChar(s[k])]

SetMin(S) == CHOOSE x \in S : \A y \in S : x <= y

SetMax(S) == CHOOSE x \in S : \A y \in S : y <= x

\* s[k:].startswith(p), k counted from 1.
StartsAt(s, k, p) ==
  /\ k + Len(p) - 1 <= Len(s)
  /\ \A j \in 1..Len(p) : s[k + j - 1] = p[j]

StartsWith(s, p) == StartsAt(s, 1, p)

EndsWith(s, p) == Len(p) <= Len(s) /\ StartsAt(s, Len(s) - Len(p) + 1, p)

\* str.strip(chars) with the characters to strip given by a predicate set.
StripChars(s, chars) ==
  LET keep == { k \in 1..Len(s) : s[k] \notin chars }
  IN  IF keep = {} THEN << >> ELSE SubSeq(s, SetMin(keep), SetMax(keep))

\* str.strip()
Strip(s) ==
  LET keep == { k \in 1..Len(s) : ~IsSpace(s[k]) }
  IN  IF keep = {} THEN << >> ELSE SubSeq(s, SetMin(keep), SetMax(keep))

\* str.rstrip()
RStrip(s) ==
  LET keep == { k \in 1..Len(s) : ~IsSpace(s[k]) }
  IN  IF keep = {} THEN << >> ELSE SubSeq(s, 1, SetMax(keep))

\* str.replace(old, new): the non-overlapping occurrences of old, left to right.
RECURSIVE ReplaceFrom(_, _, _, _)
ReplaceFrom(s, k, old, new) ==
  IF k > Len(s) THEN << >>
  ELSE IF StartsAt(s, k, old)
    THEN new \o ReplaceFrom(s, k + Len(old), old, new)
    ELSE << s[k] >> \o ReplaceFrom(s, k + 1, old, new)

Replace(s, old, new) == ReplaceFrom(s, 1, old, new)

\* str.split('\n'): the pieces between the line breaks, empty ones included.
SplitLines(s) ==
  LET brk == { k \in 1..Len(s) : s[k] = "\n" }
      cut == brk \cup { 0, Len(s) + 1 }
      nxt(k) == SetMin({ j \in cut : j > k })
      ordered == [ n \in 1..(Cardinality(brk) + 1) |->
                     CHOOSE k \in cut \ { Len(s) + 1 } :
                       Cardinality({ j \in cut : j < k }) = n - 1 ]
  IN  [ n \in 1..(Cardinality(brk) + 1) |->
          SubSeq(s, ordered[n] + 1, nxt(ordered[n]) - 1) ]

\* str.split(): the whitespace-separated words; the program reads only word 0.
\* << >> when there is no word (the program's [0] then raises IndexError).
FirstWord(s) ==
  LET word == { k \in 1..Len(s) : ~IsSpace(s[k]) }
  IN  IF word = {} THEN << >>
      ELSE LET a == SetMin(word)
               stop == { k \in a..Len(s) : IsSpace(s[k]) }
           IN  SubSeq(s, a, IF stop = {} THEN Len(s) ELSE SetMin(stop) - 1)

HasWord(s) == \E k \in 1..Len(s) : ~IsSpace(s[k])

\* '\n'.join(lines)
RECURSIVE JoinFrom(_, _)
JoinFrom(ls, k) ==
  IF k > Len(ls) THEN << >>
  ELSE IF k = Len(ls) THEN ls[k]
  ELSE ls[k] \o << "\n" >> \o JoinFrom(ls, k + 1)

Join(ls) == JoinFrom(ls, 1)

\* ''.join(inner)
RECURSIVE Concat(_)
Concat(ls) == IF ls = << >> THEN << >> ELSE Head(ls) \o Concat(Tail(ls))

\* '  ' * n: two spaces per level, the empty text when n <= 0.
RECURSIVE Indent(_)
Indent(n) == IF n <= 0 THEN << >> ELSE << " ", " " >> \o Indent(n - 1)

(***************************************************************************)
(* The program's constants.                                                *)
(***************************************************************************)

VOID_ELEMENTS ==
  { << "a", "r", "e", "a" >>, << "b", "a", "s", "e" >>, << "b", "r" >>,
    << "c", "o", "l" >>, << "e", "m", "b", "e", "d" >>, << "h", "r" >>,
    << "i", "m", "g" >>, << "i", "n", "p", "u", "t" >>,
    << "l", "i", "n", "k" >>, << "m", "e", "t", "a" >>,
    << "p", "a", "r", "a", "m" >>, << "s", "o", "u", "r", "c", "e" >>,
    << "t", "r", "a", "c", "k" >>, << "w", "b", "r" >> }

OpaqueNames ==
  { << "s", "c", "r", "i", "p", "t" >>, << "s", "t", "y", "l", "e" >> }

CommentOpen == << "<", "!", "-", "-" >>

CommentClose == << "-", "-", ">" >>

DoctypeOpen == << "<", "!", "D", "O", "C", "T", "Y", "P", "E" >>

(***************************************************************************)
(* format_html: normalisation and the tokenizer.                           *)
(***************************************************************************)

\* text.replace('\r\n', '\n').replace('\r', '\n')
NormalizeBreaks(s) ==
  Replace(Replace(s, << "\r", "\n" >>, << "\n" >>), << "\r" >>, << "\n" >>)

\* text.replace('\t', '  ')
ExpandTabs(s) == Replace(s, << "\t" >>, << " ", " " >>)

\* The last index of the match of token_re that starts at pos, 0 when none of
\* its four alternatives matches there:
\*   <!--.*?-->   <!DOCTYPE.*?>   <[^>]+>   [^<]+      (re.S | re.I)
MatchEnd(s, pos) ==
  LET n == Len(s)
      commentEnds == { j \in (pos + 4)..n : StartsAt(s, j, CommentClose) }
      gtFrom(a) == { j \in a..n : s[j] = ">" }
      ltAfter == { j \in (pos + 1)..n : s[j] = "<" }
  IN  IF StartsAt(s, pos, CommentOpen) /\ commentEnds # {}
        THEN SetMin(commentEnds) + 2
      ELSE IF pos + 8 <= n
                /\ Upper(SubSeq(s, pos, pos + 8)) = DoctypeOpen
                /\ gtFrom(pos + 9) # {}
        THEN SetMin(gtFrom(pos + 9))
      ELSE IF s[pos] = "<" /\ pos + 1 <= n /\ s[pos + 1] # ">"
                /\ gtFrom(pos + 2) # {}
        THEN SetMin(gtFrom(pos + 2))
      ELSE IF s[pos] # "<"
        THEN IF ltAfter = {} THEN n ELSE SetMin(ltAfter) - 1
      ELSE 0

\* token_re.findall(text): the matches left to right; a character at which
\* nothing matches is skipped.
RECURSIVE FindAll(_, _)
FindAll(s, pos) ==
  IF pos > Len(s) THEN << >>
  ELSE LET e == MatchEnd(s, pos)
       IN  IF e = 0 THEN FindAll(s, pos + 1)
           ELSE << SubSeq(s, pos, e) >> \o FindAll(s, e + 1)

Tokenize(s) == FindAll(s, 1)

(***************************************************************************)
(* format_html: how the depth machine classifies a token.                  *)
(***************************************************************************)

\* The first index >= k of t that holds no whitespace, Len(t) + 1 when none.
SkipSpace(t, k) ==
  LET ns == { j \in k..Len(t) : ~IsSpace(t[j]) }
  IN  IF ns = {} THEN Len(t) + 1 ELSE SetMin(ns)

NameChars ==
  { LowerLetters[k] : k \in 1..26 } \cup { UpperLetters[k] : k \in 1..26 }
    \cup Digits \cup { ":", "-" }

\* tok_strip.startswith('<!--') or tok_strip.upper().startswith('<!DOCTYPE')
IsCommentOrDoctype(ts) ==
  StartsWith(ts, CommentOpen) \/ StartsWith(Upper(ts), DoctypeOpen)

\* re.match(r'<\s*([a-zA-Z0-9:-]+)', tok_strip): group 1 lower-cased, '' when
\* there is no match.
TagName(ts) ==
  IF ts = << >> \/ ts[1] # "<" THEN << >>
  ELSE LET a == SkipSpace(ts, 2)
           stop == { j \in a..Len(ts) : ts[j] \notin NameChars }
           e == IF stop = {} THEN Len(ts) ELSE SetMin(stop) - 1
       IN  IF e >= a THEN Lower(SubSeq(ts, a, e)) ELSE << >>

\* A slip: the match without re.I.
IsCloseTagOf_cased(t, name) ==
  LET a == SkipSpace(t, 1)
      b == SkipSpace(t, a + 2)
      c == SkipSpace(t, b + Len(name))
  IN  /\ a + 1 <= Len(t)
      /\ t[a] = "<"
      /\ t[a + 1] = "/"
      /\ StartsAt(t, b, name)
      /\ c <= Len(t)
      /\ t[c] = ">"

\* re.match(r'\s*</\s*' + tag_name + r'\s*>', t, re.I)
IsCloseTagOf(t, name) ==
  LET a == SkipSpace(t, 1)
      b == SkipSpace(t, a + 2)
      c == SkipSpace(t, b + Len(name))
  IN  /\ a + 1 <= Len(t)
      /\ t[a] = "<"
      /\ t[a + 1] = "/"
      /\ StartsAt(Lower(t), b, Lower(name))
      /\ c <= Len(t)
      /\ t[c] = ">"

\* The argument line 96 hands to is_self_closing:
\*   tok_strip.strip('<>/ ').split()[0] if ' ' in tok_strip
\*   else tok_strip.strip('<>/')
SelfClosingArg(ts) ==
  IF \E k \in 1..Len(ts) : ts[k] = " "
    THEN FirstWord(StripChars(ts, { "<", ">", "/", " " }))
    ELSE StripChars(ts, { "<", ">", "/" })

\* Line 96's split()[0] raises IndexError when the split has no word.
ArgRaises(ts) ==
  /\ \E k \in 1..Len(ts) : ts[k] = " "
  /\ ~HasWord(StripChars(ts, { "<", ">", "/", " " }))

\* is_self_closing(tag): "yes", "no", or "raise" when tag.split() has no
\* word 0 (IndexError).
is_self_closing(tag) ==
  IF EndsWith(tag, << "/" >>) THEN "yes"
  ELSE IF ~HasWord(tag) THEN "raise"
  ELSE IF Lower(FirstWord(tag)) \in VOID_ELEMENTS THEN "yes"
  ELSE "no"

\* The condition of line 96 as a whole.
SelfClosing(ts) ==
  IF EndsWith(ts, << "/", ">" >>) THEN "yes"
  ELSE IF ArgRaises(ts) THEN "raise"
  ELSE is_self_closing(SelfClosingArg(ts))

\* A slip: the closing tag that does not decrement.
SatDec_none(d) == d

\* A slip: the decrement without its floor.
SatDec_unsaturated(d) == d - 1

\* max(indent - 1, 0), max(depth - 1, 0)
SatDec(d) == IF d - 1 > 0 THEN d - 1 ELSE 0

\* One emitted line: '  ' * indent + content
Line(d, content) == Indent(d) \o content

\* Lines 81-87: the interior of an opaque block, line by line.
InnerLines(inner_, d) ==
  LET ls == SplitLines(Concat(inner_))
  IN  [ n \in 1..Len(ls) |->
          IF Strip(ls[n]) = << >> THEN << >> ELSE Line(d, RStrip(ls[n])) ]

\* Lines 109-113: the non-blank lines of a text node, stripped.
TextLines(tok, d) ==
  LET ls == SelectSeq(SplitLines(tok), LAMBDA l : Strip(l) # << >>)
  IN  [ n \in 1..Len(ls) |-> Line(d, Strip(ls[n])) ]

\* A slip: the join without its rstrip().
FinalText_unstripped(ls) == Join(ls) \o << "\n" >>

\* '\n'.join(out_lines).rstrip() + '\n'
FinalText(ls) == RStrip(Join(ls)) \o << "\n" >>

\* n copies of d: the depths a run of n emitted lines was written at.
Depths(n, d) == [ k \in 1..n |-> d ]

(***************************************************************************)
(* format_css: one line.                                                   *)
(***************************************************************************)

\* Lines 131-132: the depth the line is emitted at.
CssEmitDepth(line, d) == IF StartsWith(line, << "}" >>) THEN SatDec(d) ELSE d

\* A slip: the "{" looked for anywhere in the line.
CssNextDepth_contains(line, d) ==
  IF \E k \in 1..Len(line) : line[k] = "{" THEN d + 1 ELSE d

\* Lines 135-140: the depth after the line (d is the depth it was emitted at).
\* The test of line 138 changes nothing: its body is pass.
CssNextDepth(line, d) == IF EndsWith(line, << "{" >>) THEN d + 1 ELSE d

(***************************************************************************)
(* process_file: the formatter a path selects.                             *)
(***************************************************************************)

\* Path(p).name: what follows the last '/'.
PathName(p) ==
  LET sl == { k \in 1..Len(p) : p[k] = "/" }
  IN  IF sl = {} THEN p ELSE SubSeq(p, SetMax(sl) + 1, Len(p))

\* Path(p).suffix: from the last '.' of the name, unless the name starts or
\* ends with it.
Suffix(p) ==
  LET name == PathName(p)
      dots == { k \in 1..Len(name) : name[k] = "." }
  IN  IF dots # {} /\ 1 < SetMax(dots) /\ SetMax(dots) < Len(name)
        THEN SubSeq(name, SetMax(dots), Len(name))
        ELSE << >>

\* A slip: the suffix compared without lower().
Formatter_cased(p) ==
  LET ext == Suffix(p)
  IN  IF ext \in { << ".", "h", "t", "m", "l" >>, << ".", "h", "t", "m" >> }
        THEN "html"
      ELSE IF ext \in { << ".", "c", "s", "s" >> } THEN "css"
      ELSE "fallback"

\* Lines 146-152.
Formatter(p) ==
  LET ext == Lower(Suffix(p))
  IN  IF ext \in { << ".", "h", "t", "m", "l" >>, << ".", "h", "t", "m" >> }
        THEN "html"
      ELSE IF ext \in { << ".", "c", "s", "s" >> } THEN "css"
      ELSE "fallback"

\* A slip: the file written whether or not the text changed.
Changed_always(new_, text_) == TRUE

\* Line 154.
Changed(new_, text_) == new_ # text_

(***************************************************************************)
(* The inputs: file names and file contents.                               *)
(***************************************************************************)

MaxHtmlPieces == 3

MaxCssPieces == 5

MaxPlainPieces == 2

\* Every concatenation of at most n of the pieces.
RECURSIVE TextsOf(_, _)
TextsOf(pieces, n) ==
  IF n = 0 THEN { << >> }
  ELSE LET shorter == TextsOf(pieces, n - 1)
       IN  shorter \cup { t \o f : t \in shorter, f \in pieces }

\* Tags, text and the bare characters degenerate tags are made of.
HtmlPieces ==
  { << "<", "s", "t", "y", "l", "e", ">" >>,
    << "<", "/", "s", "t", "y", "l", "e", ">" >>,
    << "<", "p", ">" >>,
    << "<", "/", "p", ">" >>,
    << "<", "b", "r", ">" >>,
    << "<", "!", "-", "-" >>,
    << "-", "-", ">" >>,
    << "x" >>,
    << "\n" >>,
    << "\t" >>,
    << " " >>,
    << "<" >>,
    << ">" >>,
    << "/" >> }

ScenarioA ==
  << "<", "d", "i", "v", ">", "<", "p", ">", "H", "i", "<", "/", "p", ">",
     "<", "/", "d", "i", "v", ">" >>

ScenarioB ==
  << "<", "d", "i", "v", ">", "<", "i", "m", "g", " ", "s", "r", "c", "=",
     "\"", "x", "\"", ">", "<", "p", ">", "t", "<", "/", "p", ">", "<",
     "/", "d", "i", "v", ">" >>

ScenarioC ==
  << "<", "s", "t", "y", "l", "e", ">", "\n", ".", "a", "{", "c", "o", "l",
     "o", "r", ":", "r", "e", "d", "}", "\n", "<", "/", "s", "t", "y", "l",
     "e", ">" >>

ScenarioE ==
  << "<", "/", "d", "i", "v", ">", "<", "p", ">", "x", "<", "/", "p", ">" >>

ScenarioSlashes == << "<", " ", "/", " ", ">" >>

ScenarioSelfClosed ==
  << "<", "d", "i", "v", ">", "<", "p", "/", ">", "<", "b", "r", "/", ">",
     "<", "p", ">", "x", "<", "/", "p", ">", "<", "/", "d", "i", "v", ">" >>

ScenarioVoidUpper ==
  << "<", "d", "i", "v", ">", "<", "I", "M", "G", " ", "s", "r", "c", "=",
     "\"", "x", "\"", ">", "<", "B", "r", ">", "<", "p", ">" >>

ScenarioScriptSelfClosed ==
  << "<", "s", "c", "r", "i", "p", "t", "/", ">", "<", "p", ">", "x", "<",
     "/", "p", ">" >>

ScenarioUnterminated ==
  << "<", "p", ">", "<", "s", "t", "y", "l", "e", ">", "x", "\n", " ",
     "\n", "\n" >>

ScenarioOpaqueMixed ==
  << "<", "p", ">", "<", "S", "C", "R", "I", "P", "T", ">", "a", " ", "<",
     "b", ">", "\n", "\n", "<", "/", "p", ">", " ", "c", " ", " ", "\n",
     "<", "/", "S", "c", "r", "i", "p", "t", " ", ">", "<", "p", ">" >>

ScenarioLostBracket ==
  << "<", "s", "t", "y", "l", "e", ">", "a", "<", ">", "b", "<", "/", "s",
     "t", "y", "l", "e", ">" >>

ScenarioComment ==
  << "<", "!", "D", "O", "C", "T", "Y", "P", "E", " ", "h", "t", "m", "l",
     ">", "<", "!", "-", "-", " ", "a", "\n", ">", "b", " ", "-", "-", ">",
     "<", "p", ">", "x", "<", "/", "p", ">" >>

ScenarioBreaks ==
  << "<", "p", ">", "\r", "\n", "\t", "x", " ", "y", "\r", "<", "/", "p",
     ">" >>

HtmlScenarios ==
  { ScenarioA,
    ScenarioB,
    ScenarioC,
    ScenarioE,
    ScenarioSlashes,
    ScenarioSelfClosed,
    ScenarioVoidUpper,
    ScenarioScriptSelfClosed,
    ScenarioUnterminated,
    ScenarioOpaqueMixed,
    ScenarioLostBracket,
    ScenarioComment,
    ScenarioBreaks }

HtmlInputs == TextsOf(HtmlPieces, MaxHtmlPieces) \cup HtmlScenarios

CssPieces ==
  { << "{" >>,
    << "}" >>,
    << "a" >>,
    << "\n" >>,
    << " " >> }

ScenarioD ==
  << ".", "a", " ", "{", "\n", "c", "o", "l", "o", "r", ":", " ", "r", "e",
     "d", ";", "\n", "}" >>

ScenarioCssBreaks ==
  << "\t", "a", " ", "{", "\r", "\n", "\r", " ", "b", "{", "\r", "}", "}",
     "\n", "}", "\n", "c", " ", "{", " ", "d", " ", "}", "\n", "\n" >>

ScenarioCssSingle ==
  << "}", "\n", "}", " ", "a", " ", "{", "\n", "b", " ", "{", " ", "c",
     " ", "}", "\n", "}", " ", "d", " ", "{", "\n", "e" >>

ScenarioCssNested ==
  << "a", " ", "{", "\n", "\n", " ", " ", "b", " ", "{", "\n", "\t", "c",
     "\n", "}", "\n", "}", " ", "d", " ", "{", "\n", " ", "}", "\n" >>

CssScenarios ==
  { ScenarioD,
    ScenarioCssNested,
    ScenarioCssBreaks,
    ScenarioCssSingle }

CssInputs == TextsOf(CssPieces, MaxCssPieces) \cup CssScenarios

PlainPieces ==
  { << "\t" >>,
    << "x" >>,
    << "\n" >>,
    << "\r" >>,
    << " " >> }

PlainInputs ==
  TextsOf(PlainPieces, MaxPlainPieces)
    \cup { ScenarioA, ScenarioD, ScenarioBreaks, ScenarioCssBreaks }

Prog ==
  << "a", "u", "t", "o", "_", "i", "n", "d", "e", "n", "t", ".", "p", "y" >>

HtmlPath == << "a", ".", "h", "t", "m", "l" >>

CssPath == << "s", ".", "c", "s", "s" >>

OtherFile == << "o", ".", "h", "t", "m", "l" >>

\* Names whose lower-cased suffix is .html or .htm.
HtmlPaths ==
  { << "b", ".", "h", "t", "m" >>,
    << "C", ".", "H", "T", "M", "L" >>,
    << "d", "/", "e", ".", "H", "t", "m" >>,
    << "f", ".", "c", "s", "s", ".", "h", "t", "m", "l" >> }

\* Names whose lower-cased suffix is .css.
CssPaths ==
  { << "T", ".", "C", "S", "S" >>,
    << "u", ".", "h", "t", "m", "l", ".", "C", "s", "s" >> }

\* Names with any other suffix, or none.
PlainPaths ==
  { << "n", ".", "t", "x", "t" >>,
    << "R", "E", "A", "D", "M", "E" >>,
    << ".", "h", "t", "m", "l" >>,
    << "a", ".", "h", "t", "m", "l", "/", "x" >>,
    << "b", ".", "h", "t", "m", "l", "x" >>,
    << "c", ".", "c", "s", "s", "." >>,
    << "d", ".", "x", "h", "t", "m", "l" >> }


\* The (path, content) pairs a run starts from.
Cases ==
  ({ HtmlPath } \X HtmlInputs) \cup (HtmlPaths \X HtmlScenarios)
    \cup ({ CssPath } \X CssInputs) \cup (CssPaths \X CssScenarios)
    \cup (PlainPaths \X PlainInputs)

\* The content of the file no argument names.
OtherText == ScenarioA

(***************************************************************************)
(* The state.                                                              *)
(***************************************************************************)

VARIABLES
  argv,       \* sys.argv: the program name, then the paths
  files,      \* the file system: path -> content
  stdout,     \* the lines printed so far
  writes,     \* the paths written so far, one entry for each write_text
  reads,      \* the paths read so far, one entry for each read_text
  unwritable, \* the paths whose write_text raises OSError
  ret,        \* main's return value, "none" until it returns
  pc,         \* where the program is
  arg,        \* main's loop: the index in argv of the path being processed
  text,       \* process_file: the text read
  new,        \* process_file: the formatter's result
  fmt,        \* process_file: the branch of lines 146-152 taken
  tokens,     \* format_html
  i,          \* format_html: the index of the next token, from 0
  indent,     \* format_html
  out_lines,  \* format_html
  tag_name,   \* format_html: the opaque element being collected
  inner,      \* format_html: the tokens collected for it
  lines,      \* format_css
  raw,        \* format_css: the number of lines the for loop has taken
  depth,      \* format_css
  out,        \* format_css
  used        \* the depth each emitted line of the pass was written at

vars ==
  << argv, files, stdout, writes, reads, unwritable, ret, pc, arg, text,
     new, fmt, tokens, i, indent, out_lines, tag_name, inner, lines, raw,
     depth, out, used >>

mainVars == << argv, ret, arg >>

ioVars == << files, stdout, writes, reads, unwritable >>

htmlVars == << tokens, i, indent, out_lines, tag_name, inner >>

cssVars == << lines, raw, depth, out >>

\* The locals of a formatter that is not running.
NoHtml ==
  /\ tokens' = << >>
  /\ i' = 0
  /\ indent' = 0
  /\ out_lines' = << >>
  /\ tag_name' = << >>
  /\ inner' = << >>

NoCss ==
  /\ lines' = << >>
  /\ raw' = 0
  /\ depth' = 0
  /\ out' = << >>

Usage == << "Usage" >>

Init ==
  /\ \E c \in Cases :
       /\ argv \in { << Prog >>, << Prog, c[1], c[1] >> }
       /\ files = [ q \in { c[1], OtherFile } |->
                      IF q = c[1] THEN c[2] ELSE OtherText ]
  /\ unwritable = { }
  /\ stdout = << >>
  /\ writes = << >>
  /\ reads = << >>
  /\ ret = "none"
  /\ pc = "main"
  /\ arg = 2
  /\ text = << >>
  /\ new = << >>
  /\ fmt = "none"
  /\ tokens = << >>
  /\ i = 0
  /\ indent = 0
  /\ out_lines = << >>
  /\ tag_name = << >>
  /\ inner = << >>
  /\ lines = << >>
  /\ raw = 0
  /\ depth = 0
  /\ out = << >>
  /\ used = << >>

(***************************************************************************)
(* main                                                                    *)
(***************************************************************************)

\* A slip: the usage error returned as success.
MainUsage_zero ==
  /\ pc = "main"
  /\ Len(argv) < 2
  /\ stdout' = Append(stdout, Usage)
  /\ ret' = 0
  /\ pc' = "exit"
  /\ UNCHANGED << argv, files, writes, reads, unwritable, arg, text, new,
                  fmt, htmlVars, cssVars, used >>

\* Lines 162-164: no path given.
MainUsage ==
  /\ pc = "main"
  /\ Len(argv) < 2
  /\ stdout' = Append(stdout, Usage)
  /\ ret' = 1
  /\ pc' = "exit"
  /\ UNCHANGED << argv, files, writes, reads, unwritable, arg, text, new,
                  fmt, htmlVars, cssVars, used >>

\* Line 167: every path is done.
MainReturn ==
  /\ pc = "main"
  /\ Len(argv) >= 2
  /\ arg > Len(argv)
  /\ ret' = 0
  /\ pc' = "exit"
  /\ UNCHANGED << argv, ioVars, arg, text, new, fmt, htmlVars, cssVars,
                  used >>

\* main is about to call process_file(Path(argv[arg])).
AtCall == pc = "main" /\ Len(argv) >= 2 /\ arg <= Len(argv)

\* Line 145: read_text returns the content of a file that is there.
Readable(p) == p \in DOMAIN files

\* What a read or a write that succeeds leaves alone.
ioRead == << files, stdout, writes, unwritable >>

(***************************************************************************)
(* process_file: read and dispatch (lines 145-152), with the first lines   *)
(* of the formatter called.                                                *)
(***************************************************************************)

\* Lines 145-147 and format_html's lines 31-40.
ProcessFileHtml ==
  /\ AtCall
  /\ Readable(argv[arg])
  /\ Formatter(argv[arg]) = "html"
  /\ text' = files[argv[arg]]
  /\ reads' = Append(reads, argv[arg])
  /\ fmt' = "html"
  /\ tokens' = Tokenize(ExpandTabs(NormalizeBreaks(files[argv[arg]])))
  /\ out_lines' = << >>
  /\ indent' = 0
  /\ i' = 0
  /\ used' = << >>
  /\ pc' = "html"
  /\ UNCHANGED << mainVars, ioRead, new, tag_name, inner, cssVars >>

\* Lines 145, 148-149 and format_css's lines 121-125.
ProcessFileCss ==
  /\ AtCall
  /\ Readable(argv[arg])
  /\ Formatter(argv[arg]) = "css"
  /\ text' = files[argv[arg]]
  /\ reads' = Append(reads, argv[arg])
  /\ fmt' = "css"
  /\ lines' = SplitLines(ExpandTabs(NormalizeBreaks(files[argv[arg]])))
  /\ out' = << >>
  /\ depth' = 0
  /\ raw' = 0
  /\ used' = << >>
  /\ pc' = "css"
  /\ UNCHANGED << mainVars, ioRead, new, htmlVars >>

\* Lines 145, 150-152.
ProcessFileFallback ==
  /\ AtCall
  /\ Readable(argv[arg])
  /\ Formatter(argv[arg]) = "fallback"
  /\ text' = files[argv[arg]]
  /\ reads' = Append(reads, argv[arg])
  /\ fmt' = "fallback"
  /\ new' = ExpandTabs(files[argv[arg]])
  /\ used' = << >>
  /\ pc' = "compare"
  /\ UNCHANGED << mainVars, ioRead, htmlVars, cssVars >>

(***************************************************************************)
(* format_html: one action for each way an iteration of the loop of lines  *)
(* 41-114 goes.                                                            *)
(***************************************************************************)

AtToken == pc = "html" /\ i < Len(tokens)

tok == tokens[i + 1]

tok_strip == Strip(tokens[i + 1])

IsOpeningTag(ts) ==
  /\ ts # << >>
  /\ ~IsCommentOrDoctype(ts)
  /\ StartsWith(ts, << "<" >>)
  /\ ~StartsWith(ts, << "<", "/" >>)

\* Lines 45-47.
HtmlBlank ==
  /\ AtToken
  /\ tok_strip = << >>
  /\ i' = i + 1
  /\ UNCHANGED << mainVars, ioVars, pc, text, new, fmt, tokens,
                  indent, out_lines, tag_name, inner, cssVars, used >>

\* Lines 50-53.
HtmlComment ==
  /\ AtToken
  /\ tok_strip # << >>
  /\ IsCommentOrDoctype(tok_strip)
  /\ out_lines' = Append(out_lines, Line(indent, tok_strip))
  /\ used' = Append(used, indent)
  /\ i' = i + 1
  /\ UNCHANGED << mainVars, ioVars, pc, text, new, fmt, tokens,
                  indent, tag_name, inner, cssVars >>

\* Lines 57-61.
HtmlClosingTag ==
  /\ AtToken
  /\ tok_strip # << >>
  /\ ~IsCommentOrDoctype(tok_strip)
  /\ StartsWith(tok_strip, << "<", "/" >>)
  /\ indent' = SatDec(indent)
  /\ out_lines' = Append(out_lines, Line(SatDec(indent), tok_strip))
  /\ used' = Append(used, SatDec(indent))
  /\ i' = i + 1
  /\ UNCHANGED << mainVars, ioVars, pc, text, new, fmt, tokens,
                  tag_name, inner, cssVars >>

\* Lines 67-73: the opening tag of a script or style element.
HtmlOpaqueOpen ==
  /\ AtToken
  /\ IsOpeningTag(tok_strip)
  /\ TagName(tok_strip) \in OpaqueNames
  /\ out_lines' = Append(out_lines, Line(indent, tok_strip))
  /\ used' = Append(used, indent)
  /\ indent' = indent + 1
  /\ tag_name' = TagName(tok_strip)
  /\ inner' = << >>
  /\ i' = i + 1
  /\ pc' = "scan"
  /\ UNCHANGED << mainVars, ioVars, text, new, fmt, tokens, cssVars >>

\* Lines 74-79: one more token of the interior.
HtmlScan ==
  /\ pc = "scan"
  /\ i < Len(tokens)
  /\ ~IsCloseTagOf(tokens[i + 1], tag_name)
  /\ inner' = Append(inner, tokens[i + 1])
  /\ i' = i + 1
  /\ UNCHANGED << mainVars, ioVars, pc, text, new, fmt, tokens,
                  indent, out_lines, tag_name, cssVars, used >>

\* Lines 81-93 when the scan stopped at the closing tag.
HtmlOpaqueClose ==
  /\ pc = "scan"
  /\ i < Len(tokens)
  /\ IsCloseTagOf(tokens[i + 1], tag_name)
  /\ LET block == InnerLines(inner, indent)
     IN  /\ out_lines' = out_lines \o block
                           \o << Line(SatDec(indent), Strip(tokens[i + 1])) >>
         /\ used' = used \o Depths(Len(block), indent) \o << SatDec(indent) >>
  /\ indent' = SatDec(indent)
  /\ i' = i + 1
  /\ tag_name' = << >>
  /\ inner' = << >>
  /\ pc' = "html"
  /\ UNCHANGED << mainVars, ioVars, text, new, fmt, tokens, cssVars >>

\* A slip: line 90's decrement without the test of line 89.
HtmlOpaqueUnterminated_decremented ==
  /\ pc = "scan"
  /\ i >= Len(tokens)
  /\ LET block == InnerLines(inner, indent)
     IN  /\ out_lines' = out_lines \o block
         /\ used' = used \o Depths(Len(block), indent)
  /\ indent' = SatDec(indent)
  /\ tag_name' = << >>
  /\ inner' = << >>
  /\ pc' = "html"
  /\ UNCHANGED << mainVars, ioVars, text, new, fmt, tokens, i, cssVars >>

\* Lines 81-93 when the scan ran off the end of the tokens.
HtmlOpaqueUnterminated ==
  /\ pc = "scan"
  /\ i >= Len(tokens)
  /\ LET block == InnerLines(inner, indent)
     IN  /\ out_lines' = out_lines \o block
         /\ used' = used \o Depths(Len(block), indent)
  /\ tag_name' = << >>
  /\ inner' = << >>
  /\ pc' = "html"
  /\ UNCHANGED << mainVars, ioVars, text, new, fmt, tokens, i,
                  indent, cssVars >>

\* Lines 96-99.
HtmlSelfClosing ==
  /\ AtToken
  /\ IsOpeningTag(tok_strip)
  /\ TagName(tok_strip) \notin OpaqueNames
  /\ SelfClosing(tok_strip) = "yes"
  /\ out_lines' = Append(out_lines, Line(indent, tok_strip))
  /\ used' = Append(used, indent)
  /\ i' = i + 1
  /\ UNCHANGED << mainVars, ioVars, pc, text, new, fmt, tokens,
                  indent, tag_name, inner, cssVars >>

\* Lines 96 and 26: split()[0] of a text without a word raises IndexError,
\* which nothing catches: it leaves format_html, process_file and main.
HtmlIndexError ==
  /\ AtToken
  /\ IsOpeningTag(tok_strip)
  /\ TagName(tok_strip) \notin OpaqueNames
  /\ SelfClosing(tok_strip) = "raise"
  /\ pc' = "raised"
  /\ UNCHANGED << mainVars, ioVars, text, new, fmt, htmlVars,
                  cssVars, used >>

\* Lines 102-105.
HtmlOpenTag ==
  /\ AtToken
  /\ IsOpeningTag(tok_strip)
  /\ TagName(tok_strip) \notin OpaqueNames
  /\ SelfClosing(tok_strip) = "no"
  /\ out_lines' = Append(out_lines, Line(indent, tok_strip))
  /\ used' = Append(used, indent)
  /\ indent' = indent + 1
  /\ i' = i + 1
  /\ UNCHANGED << mainVars, ioVars, pc, text, new, fmt, tokens,
                  tag_name, inner, cssVars >>

\* Lines 109-114.
HtmlText ==
  /\ AtToken
  /\ tok_strip # << >>
  /\ ~IsCommentOrDoctype(tok_strip)
  /\ ~StartsWith(tok_strip, << "<" >>)
  /\ LET block == TextLines(tok, indent)
     IN  /\ out_lines' = out_lines \o block
         /\ used' = used \o Depths(Len(block), indent)
  /\ i' = i + 1
  /\ UNCHANGED << mainVars, ioVars, pc, text, new, fmt, tokens,
                  indent, tag_name, inner, cssVars >>

\* Line 117.
HtmlReturn ==
  /\ pc = "html"
  /\ i >= Len(tokens)
  /\ new' = FinalText(out_lines)
  /\ pc' = "compare"
  /\ UNCHANGED << mainVars, ioVars, text, fmt, htmlVars, cssVars,
                  used >>

(***************************************************************************)
(* format_css: one action for each way an iteration of the loop of lines   *)
(* 126-140 goes.                                                           *)
(***************************************************************************)

AtLine == pc = "css" /\ raw < Len(lines)

\* A slip: rstrip() where line 127 has strip().
line_rstrip == RStrip(lines[raw + 1])

line == Strip(lines[raw + 1])

\* Lines 127-129.
CssBlank ==
  /\ AtLine
  /\ line = << >>
  /\ raw' = raw + 1
  /\ UNCHANGED << mainVars, ioVars, pc, text, new, fmt, htmlVars,
                  lines, depth, out, used >>

\* Lines 131-140.
CssLine ==
  /\ AtLine
  /\ line # << >>
  /\ out' = Append(out, Line(CssEmitDepth(line, depth), line))
  /\ used' = Append(used, CssEmitDepth(line, depth))
  /\ depth' = CssNextDepth(line, CssEmitDepth(line, depth))
  /\ raw' = raw + 1
  /\ UNCHANGED << mainVars, ioVars, pc, text, new, fmt, htmlVars,
                  lines >>

\* Line 141.
CssReturn ==
  /\ pc = "css"
  /\ raw >= Len(lines)
  /\ new' = FinalText(out)
  /\ pc' = "compare"
  /\ UNCHANGED << mainVars, ioVars, text, fmt, htmlVars, cssVars,
                  used >>

(***************************************************************************)
(* process_file: compare, write back, report (lines 154-158); then main's  *)
(* loop goes on to the next path.                                          *)
(***************************************************************************)

ProcessFileWrite ==
  /\ pc = "compare"
  /\ Changed(new, text)
  /\ argv[arg] \notin unwritable
  /\ files' = [ files EXCEPT ![argv[arg]] = new ]
  /\ writes' = Append(writes, argv[arg])
  /\ stdout' = Append(stdout, << "Formatted", argv[arg] >>)
  /\ arg' = arg + 1
  /\ pc' = "main"
  /\ text' = << >>
  /\ new' = << >>
  /\ fmt' = "none"
  /\ used' = << >>
  /\ NoHtml
  /\ NoCss
  /\ UNCHANGED << argv, ret, reads, unwritable >>

ProcessFileUnchanged ==
  /\ pc = "compare"
  /\ ~Changed(new, text)
  /\ stdout' = Append(stdout, << "Unchanged", argv[arg] >>)
  /\ arg' = arg + 1
  /\ pc' = "main"
  /\ text' = << >>
  /\ new' = << >>
  /\ fmt' = "none"
  /\ used' = << >>
  /\ NoHtml
  /\ NoCss
  /\ UNCHANGED << argv, ret, files, writes, reads, unwritable >>

Next ==
  \/ MainUsage
  \/ MainReturn
  \/ ProcessFileHtml
  \/ ProcessFileCss
  \/ ProcessFileFallback
  \/ HtmlBlank
  \/ HtmlComment
  \/ HtmlClosingTag
  \/ HtmlOpaqueOpen
  \/ HtmlScan
  \/ HtmlOpaqueClose
  \/ HtmlOpaqueUnterminated
  \/ HtmlSelfClosing
  \/ HtmlIndexError
  \/ HtmlOpenTag
  \/ HtmlText
  \/ HtmlReturn
  \/ CssBlank
  \/ CssLine
  \/ CssReturn
  \/ ProcessFileWrite
  \/ ProcessFileUnchanged

Spec == Init /\ [][Next]_vars

(***************************************************************************)
(* main over several paths, with files that cannot be read or written:     *)
(* read_text (line 145) and write_text (line 155) raise OSError, which     *)
(* nothing catches.                                                        *)
(***************************************************************************)

MaxArgs == 3

PagePath == << "p", ".", "h", "t", "m", "l" >>
StylePath == << "q", ".", "h", "t", "m" >>
ErrorPath == << "e", ".", "h", "t", "m", "l" >>
SheetPath == << "s", ".", "c", "s", "s" >>
NotePath == << "n", ".", "t", "x", "t" >>
\* No file has this path.
MissingPath == << "g", "o", "n", "e", ".", "h", "t", "m", "l" >>

ScenarioPage ==
  << "<", "!", "-", "-", "-", "-", ">", "<", "p", ">", " ", "<", "b", "r",
     ">", "x", "<", "/", "p", ">" >>

ScenarioStyles ==
  << "<", "s", "t", "y", "l", "e", ">", "a", "<", "/", "s", "t", "y", "l",
     "e", ">", "<", "s", "c", "r", "i", "p", "t", ">" >>

\* A text the fallback leaves as it is.
ScenarioNote == << "x", "\n" >>

MainFiles ==
  [ q \in { PagePath, StylePath, ErrorPath, SheetPath, NotePath }
      |-> IF q = PagePath THEN ScenarioPage
          ELSE IF q = StylePath THEN ScenarioStyles
          ELSE IF q = ErrorPath THEN ScenarioSlashes
          ELSE IF q = SheetPath THEN ScenarioCssBreaks
          ELSE ScenarioNote ]

MainPaths == DOMAIN MainFiles \cup { MissingPath }

RECURSIVE ArgsOf(_)
ArgsOf(n) ==
  IF n = 0 THEN { << >> }
  ELSE LET shorter == ArgsOf(n - 1)
       IN  shorter \cup { Append(a, q) : a \in shorter, q \in MainPaths }

InitMain ==
  /\ argv \in { << Prog >> \o a : a \in ArgsOf(MaxArgs) }
  /\ files = MainFiles
  /\ unwritable \in { { }, { SheetPath }, { PagePath, NotePath } }
  /\ stdout = << >>
  /\ writes = << >>
  /\ reads = << >>
  /\ ret = "none"
  /\ pc = "main"
  /\ arg = 2
  /\ text = << >>
  /\ new = << >>
  /\ fmt = "none"
  /\ tokens = << >>
  /\ i = 0
  /\ indent = 0
  /\ out_lines = << >>
  /\ tag_name = << >>
  /\ inner = << >>
  /\ lines = << >>
  /\ raw = 0
  /\ depth = 0
  /\ out = << >>
  /\ used = << >>

\* A slip: a file that cannot be read is skipped and the loop goes on.
ReadFails_skipped ==
  /\ AtCall
  /\ ~Readable(argv[arg])
  /\ arg' = arg + 1
  /\ UNCHANGED << argv, ret, ioVars, pc, text, new, fmt, htmlVars, cssVars,
                  used >>

\* Line 145: read_text raises; the exception leaves process_file and main.
ReadFails ==
  /\ AtCall
  /\ ~Readable(argv[arg])
  /\ pc' = "oserror"
  /\ UNCHANGED << mainVars, ioVars, text, new, fmt, htmlVars, cssVars,
                  used >>

\* What write_text can leave in a file when it raises: the old content when
\* open() failed, and a part of the new one when the write failed after open()
\* had truncated the file.
WriteLeaves(old, new_) ==
  { old } \cup { SubSeq(new_, 1, n) : n \in 0..Len(new_) }

\* Line 155: write_text raises; the exception leaves process_file and main
\* before line 156 prints.
WriteFails ==
  /\ pc = "compare"
  /\ Changed(new, text)
  /\ argv[arg] \in unwritable
  /\ \E left \in WriteLeaves(files[argv[arg]], new) :
       files' = [ files EXCEPT ![argv[arg]] = left ]
  /\ pc' = "oserror"
  /\ UNCHANGED << mainVars, stdout, writes, reads, unwritable, text, new,
                  fmt, htmlVars, cssVars, used >>

NextMain ==
  \/ Next
  \/ ReadFails
  \/ WriteFails

SpecMain == InitMain /\ [][NextMain]_vars

(***************************************************************************)
(* The properties.                                                         *)
(***************************************************************************)

Last(q) == q[Len(q)]

\* The second of two runs of process_file on the same path is at its
\* comparison of line 154.
SecondCompare ==
  /\ pc = "compare"
  /\ arg >= 3
  /\ argv[arg - 1] = argv[arg]

\* C1: a second format_html pass over the output of the first returns it
\* unchanged, so the second process_file of an .html/.htm file reports
\* Unchanged and writes nothing.
C1_MarkupIdempotent ==
  /\ (SecondCompare /\ fmt = "html") => new = text
  /\ (pc = "main" /\ arg = 4 /\ Formatter(argv[2]) = "html"
        /\ argv[2] = argv[3])
       => /\ stdout[2] = << "Unchanged", argv[3] >>
          /\ Len(writes) <= 1

\* C2: a second format_css pass over the output of the first returns it
\* unchanged.
C2_StylesheetIdempotent == (SecondCompare /\ fmt = "css") => new = text

\* A second stylesheet pass over a text the first pass rewrote, with lines at
\* depth 0 and deeper.
C2_Witness ==
  /\ SecondCompare
  /\ fmt = "css"
  /\ writes = << argv[arg] >>
  /\ Len(used) >= 3
  /\ \E k \in 1..Len(used) : used[k] > 0

\* C3: no input makes a formatter raise.
C3_NeverRaises == pc # "raised"

\* C4, as claimed: no depth is ever negative, no line is emitted at a negative
\* depth, and a closing tag or a line starting with '}' met at depth 0 is
\* emitted at depth 0 and leaves the depth at 0; after a stray </div>,
\* <p>x</p> is emitted at depths 0, 1, 0.
C4_Claimed ==
  [][ /\ indent' >= 0
      /\ depth' >= 0
      /\ \A k \in 1..Len(used') : used'[k] >= 0
      /\ (HtmlClosingTag /\ indent = 0)
           => (Last(used') = 0 /\ indent' = 0)
      /\ (CssLine /\ StartsWith(line, << "}" >>) /\ depth = 0)
           => (Last(used') = 0 /\ depth' = 0)
      /\ (HtmlReturn /\ text = ScenarioE) => used = << 0, 0, 1, 0 >>
    ]_vars

\* C4, amended: as claimed, but a line starting with '}' met at depth 0 leaves
\* the depth at 0 only if it does not end with '{'; if it does, the depth
\* after it is 1.
C4_DepthNonNegative ==
  [][ /\ indent' >= 0
      /\ depth' >= 0
      /\ \A k \in 1..Len(used') : used'[k] >= 0
      /\ (HtmlClosingTag /\ indent = 0)
           => (Last(used') = 0 /\ indent' = 0)
      /\ (CssLine /\ StartsWith(line, << "}" >>) /\ depth = 0)
           => /\ Last(used') = 0
              /\ depth' = IF EndsWith(line, << "{" >>) THEN 1 ELSE 0
      /\ (HtmlReturn /\ text = ScenarioE) => used = << 0, 0, 1, 0 >>
    ]_vars

\* A stylesheet pass has just emitted, at depth 0, a first line that starts
\* with '}' and ends with '{', and the depth is 1.
C4_Witness ==
  /\ pc = "css"
  /\ raw = 1
  /\ StartsWith(Strip(lines[1]), << "}" >>)
  /\ EndsWith(Strip(lines[1]), << "{" >>)
  /\ used = << 0 >>
  /\ depth = 1

\* str.lstrip()
LStrip(s) ==
  LET keep == { k \in 1..Len(s) : ~IsSpace(s[k]) }
  IN  IF keep = {} THEN << >> ELSE SubSeq(s, SetMin(keep), Len(s))

IsBlank(l) == Strip(l) = << >>

\* The non-blank lines, in order, without their leading whitespace.
NonBlankLines(ls) ==
  LET kept == SelectSeq(ls, LAMBDA l : ~IsBlank(l))
  IN  [ n \in 1..Len(kept) |-> LStrip(kept[n]) ]

BlankCount(ls) == Cardinality({ n \in 1..Len(ls) : IsBlank(ls[n]) })

OpenStyle == << "<", "s", "t", "y", "l", "e", ">" >>

CloseStyle == << "<", "/", "s", "t", "y", "l", "e", ">" >>

\* t is <style>, an interior without a closing tag in it, </style>.
IsOneStyleElement(t) ==
  /\ Len(t) >= Len(OpenStyle) + Len(CloseStyle)
  /\ StartsWith(t, OpenStyle)
  /\ EndsWith(t, CloseStyle)
  /\ \A k \in (Len(OpenStyle) + 1)..(Len(t) - Len(CloseStyle)) :
       ~StartsAt(t, k, << "<", "/" >>)

Interior(t) == SubSeq(t, Len(OpenStyle) + 1, Len(t) - Len(CloseStyle))

\* The output is the opening tag's line, interior lines, the closing tag's
\* line and the final line break.
IsOneStyleOutput(t) ==
  LET ls == SplitLines(t)
  IN  /\ Len(ls) >= 3
      /\ ls[1] = OpenStyle
      /\ ls[Len(ls) - 1] = CloseStyle
      /\ ls[Len(ls)] = << >>

OutputInterior(t) == SubSeq(SplitLines(t), 2, Len(SplitLines(t)) - 2)

\* C5: when the input is one style element and the pass found its closing
\* tag, the non-blank interior lines of the output are those of the input, in
\* order and leading whitespace aside, and there are as many blank interior
\* lines in the output as in the input.
C5_OpaquePreserved ==
  (pc = "compare" /\ fmt = "html" /\ IsOneStyleElement(text)
     /\ IsOneStyleOutput(new))
    => /\ NonBlankLines(OutputInterior(new))
            = NonBlankLines(SplitLines(Interior(text)))
       /\ BlankCount(OutputInterior(new))
            = BlankCount(SplitLines(Interior(text)))

\* C6: an opening tag that ends with '/>' or whose element name is a void
\* element leaves the depth as it was, whatever its name.
C6_VoidNonNesting ==
  [][ ( /\ AtToken
        /\ IsOpeningTag(tok_strip)
        /\ \/ EndsWith(tok_strip, << "/", ">" >>)
           \/ TagName(tok_strip) \in VOID_ELEMENTS
        /\ i' = i + 1 )
      => indent' = indent
    ]_vars

\* The lines a pass has emitted.
Emitted == IF fmt = "html" THEN out_lines ELSE out

AtResult == pc = "compare" /\ fmt \in { "html", "css" }

\* C7, as claimed: the output of a formatter ends with a line break, and the
\* line before that break is not blank (so a second line break never comes
\* before it).
C7_Claimed ==
  AtResult
    => LET ls == SplitLines(new)
       IN  /\ Len(ls) >= 2
           /\ ls[Len(ls)] = << >>
           /\ ~IsBlank(ls[Len(ls) - 1])

\* C7, amended: the output of a formatter ends with a line break; the line
\* before that break is not blank, unless the pass emitted no non-blank line,
\* and then the output is that one line break and nothing else.
C7_TrailingFormat ==
  AtResult
    => LET ls == SplitLines(new)
           empty == \A n \in 1..Len(Emitted) : IsBlank(Emitted[n])
       IN  /\ Len(ls) >= 2
           /\ ls[Len(ls)] = << >>
           /\ empty => new = << "\n" >>
           /\ ~empty => ~IsBlank(ls[Len(ls) - 1])

\* A markup pass whose last emitted lines are blank (the interior of an
\* unterminated opaque block) returns a text with non-blank lines.
C7_Witness ==
  /\ pc = "compare"
  /\ fmt = "html"
  /\ Len(out_lines) >= 3
  /\ Last(out_lines) = << >>
  /\ out_lines[Len(out_lines) - 1] = << >>
  /\ Len(new) > 1

ScenarioCOutput ==
  << "<", "s", "t", "y", "l", "e", ">", "\n", " ", " ", ".", "a", "{", "c",
     "o", "l", "o", "r", ":", "r", "e", "d", "}", "\n", "<", "/", "s", "t",
     "y", "l", "e", ">", "\n" >>

\* C8: Scenario C gives three lines, the interior line one level deeper than
\* the tags, and no blank line.
C8_ScenarioC ==
  (pc = "compare" /\ fmt = "html" /\ arg = 2 /\ text = ScenarioC)
    => (new = ScenarioCOutput /\ used = << 0, 1, 0 >>)

\* C9: process_file writes the file exactly when the formatted text differs
\* from the text read, and then the file holds the formatted text; otherwise
\* it writes nothing; either way it prints one status line naming the file,
\* the only line it prints, and no other file changes.
C9_WriteBackIffChanged ==
  [][ /\ pc = "compare"
           => /\ DOMAIN files' = DOMAIN files
              /\ \A q \in DOMAIN files \ { argv[arg] } : files'[q] = files[q]
              /\ new # text
                   => /\ files'[argv[arg]] = new
                      /\ writes' = Append(writes, argv[arg])
                      /\ stdout' = Append(stdout, << "Formatted", argv[arg] >>)
              /\ new = text
                   => /\ files' = files
                      /\ writes' = writes
                      /\ stdout' = Append(stdout, << "Unchanged", argv[arg] >>)
      /\ pc # "compare" => (files' = files /\ writes' = writes)
      /\ pc \notin { "compare", "main" } => stdout' = stdout
      /\ (pc = "main" /\ pc' # "exit") => stdout' = stdout
    ]_vars

\* The first process_file has rewritten its file and reported it; the file no
\* argument names is as it was.
C9_Witness ==
  /\ pc = "main"
  /\ arg = 3
  /\ writes = << argv[2] >>
  /\ stdout = << << "Formatted", argv[2] >> >>
  /\ files[argv[2]] # << >>
  /\ files[OtherFile] = OtherText

\* The text with two spaces in the place of each tab.
TabsAsSpaces(t) ==
  Concat([ k \in 1..Len(t) |->
            IF t[k] = "\t" THEN << " ", " " >> ELSE << t[k] >> ])

\* C10: .html and .htm in any letter case select format_html, .css in any
\* letter case selects format_css, any other name the fallback, whose result
\* is the text read with two spaces for each tab and no other change.
C10_FileTypeSelection ==
  fmt # "none"
    => /\ fmt = "html" <=> argv[arg] \in { HtmlPath } \cup HtmlPaths
       /\ fmt = "css" <=> argv[arg] \in { CssPath } \cup CssPaths
       /\ fmt = "fallback" <=> argv[arg] \in PlainPaths
       /\ (fmt = "fallback" /\ pc = "compare") => new = TabsAsSpaces(text)

\* The fallback has run on a file with an unknown suffix, whose text holds
\* tabs and carriage returns.
C10_Witness ==
  /\ pc = "compare"
  /\ fmt = "fallback"
  /\ argv[arg] = << "b", ".", "h", "t", "m", "l", "x" >>
  /\ text = ScenarioBreaks
  /\ new # text

(***************************************************************************)
(* C11-C18                                                                 *)
(***************************************************************************)

\* The paths of the command line, in order.
Paths == Tail(argv)

IsPrefix(s, t) == Len(s) <= Len(t) /\ s = SubSeq(t, 1, Len(s))

\* The path each printed status line names.
Reported == [ k \in 1..Len(stdout) |-> stdout[k][2] ]

\* C11: main without a path prints the usage line and returns 1, a non-zero
\* status, having read and written no file; main with one or more paths calls
\* process_file on each path once, in the order of the command line (the files
\* read so far and the status lines printed so far are always the first paths
\* of the command line, and the call in progress is for the next one), and
\* returns, with 0, only when every call has completed.
C11_MainDispatch ==
  /\ IsPrefix(reads, Paths)
  /\ pc \in { "html", "scan", "css", "compare" } => Len(reads) = arg - 1
  /\ pc = "main" => Len(reads) = arg - 2
  /\ Len(argv) < 2 =>
       /\ reads = << >>
       /\ writes = << >>
       /\ files = MainFiles
       /\ pc = "exit" => ret = 1 /\ stdout = << Usage >>
  /\ Len(argv) >= 2 =>
       /\ Len(stdout) <= Len(Paths)
       /\ IsPrefix(Reported, Paths)
       /\ pc = "exit" => ret = 0 /\ reads = Paths /\ Reported = Paths
  /\ pc # "exit" => ret = "none"

\* main has returned 0 after two different files, the first one rewritten.
C11_Witness ==
  /\ pc = "exit"
  /\ ret = 0
  /\ Len(argv) = 3
  /\ argv[2] # argv[3]
  /\ reads = << argv[2], argv[3] >>
  /\ writes # << >>
  /\ writes[1] = argv[2]

\* An ordinary opening tag: not a comment, not script or style, not void, not
\* closed by "/>".
IsOrdinaryOpen(ts) ==
  /\ IsOpeningTag(ts)
  /\ TagName(ts) \notin OpaqueNames
  /\ SelfClosing(ts) = "no"

IsClose(ts) == StartsWith(ts, << "<", "/" >>)

IsTextToken(ts) == ts # << >> /\ ~StartsWith(ts, << "<" >>)

\* The number of elements open before tokens ts[k]: the opening tags before it
\* less the closing tags before it.
OpenBefore(ts, k) ==
  Cardinality({ j \in 1..(k - 1) : IsOrdinaryOpen(Strip(ts[j])) })
    - Cardinality({ j \in 1..(k - 1) : IsClose(Strip(ts[j])) })

\* ts holds ordinary opening tags, closing tags, text and blanks only, no
\* closing tag comes without an element to close, and every element is closed.
\* (The names of the tags are not compared: the depths do not depend on them.)
WellNested(ts) ==
  /\ \A k \in 1..Len(ts) :
       LET t == Strip(ts[k])
       IN  \/ t = << >>
           \/ IsOrdinaryOpen(t)
           \/ IsClose(t) /\ OpenBefore(ts, k) >= 1
           \/ IsTextToken(t)
  /\ OpenBefore(ts, Len(ts) + 1) = 0

Pad(d) == [ k \in 1..(2 * d) |-> " " ]

\* The lines the claim expects for the tokens from ts[k] on, each with its
\* depth: << depth, line >>.
RECURSIVE NestedLines(_, _)
NestedLines(ts, k) ==
  IF k > Len(ts) THEN << >>
  ELSE LET t == Strip(ts[k])
           d == OpenBefore(ts, k)
           here ==
             IF t = << >> THEN << >>
             ELSE IF IsOrdinaryOpen(t) THEN << << d, Pad(d) \o t >> >>
             ELSE IF IsClose(t) THEN << << d - 1, Pad(d - 1) \o t >> >>
             ELSE LET ls == SelectSeq(SplitLines(ts[k]),
                                      LAMBDA l : Strip(l) # << >>)
                  IN  [ n \in 1..Len(ls) |-> << d, Pad(d) \o Strip(ls[n]) >> ]
       IN  here \o NestedLines(ts, k + 1)

ScenarioAOutput ==
  << "<", "d", "i", "v", ">", "\n", " ", " ", "<", "p", ">", "\n", " ",
     " ", " ", " ", "H", "i", "\n", " ", " ", "<", "/", "p", ">", "\n",
     "<", "/", "d", "i", "v", ">", "\n" >>

\* C12: when a pass of format_html over a well-nested stream of ordinary
\* opening tags, closing tags and text is over, every opening tag was emitted
\* at the number of elements open before it, every closing tag at the depth of
\* its opening tag (one less than the number open before it), every non-blank
\* line of text, stripped, at the number of elements open around it (the depth
\* of the enclosing element plus one), each prefixed by two spaces for a level,
\* and the depth is 0 again; Scenario A gives the five lines of the spec.
C12_MarkupNesting ==
  (pc = "compare" /\ fmt = "html" /\ WellNested(tokens))
    => LET want == NestedLines(tokens, 1)
       IN  /\ used = [ n \in 1..Len(want) |-> want[n][1] ]
           /\ out_lines = [ n \in 1..Len(want) |-> want[n][2] ]
           /\ indent = 0
           /\ text = ScenarioA => new = ScenarioAOutput

\* Scenario A has been formatted: depths 0, 1, 2, 1, 0.
C12_Witness ==
  /\ pc = "compare"
  /\ fmt = "html"
  /\ text = ScenarioA
  /\ WellNested(tokens)
  /\ used = << 0, 1, 2, 1, 0 >>
  /\ indent = 0

\* The non-blank lines of the stylesheet, trimmed, in order.
CssKept ==
  LET kept == SelectSeq(lines, LAMBDA l : Strip(l) # << >>)
  IN  [ n \in 1..Len(kept) |-> Strip(kept[n]) ]

\* The depth left by the line kept[n] when it was emitted at depth d.
LeftBy(l, d) == IF l[Len(l)] = "{" THEN d + 1 ELSE d

\* Every "{" ends its line and every "}" starts its line.
BracesAtEnds(kept) ==
  \A n \in 1..Len(kept) :
    \A k \in 1..Len(kept[n]) :
      /\ kept[n][k] = "{" => k = Len(kept[n])
      /\ kept[n][k] = "}" => k = 1

\* The lines among the first n that end with "{", less the ones that start
\* with "}".
BraceBalance(kept, n) ==
  Cardinality({ m \in 1..n : kept[m][Len(kept[m])] = "{" })
    - Cardinality({ m \in 1..n : kept[m][1] = "}" })

\* The braces are balanced: no "}" without a "{" still open before it, and
\* none left open at the end.
Balanced(kept) ==
  /\ \A n \in 1..Len(kept) :
       kept[n][1] = "}" => BraceBalance(kept, n - 1) >= 1
  /\ BraceBalance(kept, Len(kept)) = 0

OpensBeforeCloses(l) ==
  LET opens == { k \in 1..Len(l) : l[k] = "{" }
      closes == { k \in 1..Len(l) : l[k] = "}" }
  IN  opens # {} /\ closes # {} /\ SetMin(opens) < SetMin(closes)

\* C14: a step of format_css over a line that holds both braces, the first "{"
\* before the first "}", leaves the depth as it was, whether or not the line
\* starts with "}" or ends with "{".
C14_SingleLineBlock ==
  [][(pc = "css" /\ raw < Len(lines) /\ OpensBeforeCloses(Strip(lines[raw + 1])))
       => depth' = depth]_vars

\* The token is a closing tag of the element name, whatever its case:
\* "</", the name, ">", with optional whitespace around the name.
ClosesElement(t, name) ==
  LET ts == Strip(t)
  IN  /\ Len(ts) >= 3
      /\ ts[1] = "<"
      /\ ts[2] = "/"
      /\ ts[Len(ts)] = ">"
      /\ Lower(Strip(SubSeq(ts, 3, Len(ts) - 1))) = name

\* C15: the opening tag of a script or style element is emitted at the current
\* depth; while the element is open the depth stays one greater than that and
\* every token that is not a closing tag of the same name, in any case, joins
\* the interior, with nothing emitted and the depth left alone; the first
\* closing tag of that name ends the block: the interior comes out line for
\* line (its tags stay in their lines), the closing tag is emitted at the depth
\* of the opening tag, which is the depth again after the block, and the loop
\* goes on with the token after the closing tag.
C15_OpaqueBoundary ==
  [][/\ (pc = "html" /\ pc' = "scan")
          => /\ tag_name' \in OpaqueNames
             /\ used' = Append(used, indent)
             /\ indent' = indent + 1
             /\ inner' = << >>
             /\ i' = i + 1
     /\ (pc = "scan" /\ i < Len(tokens))
          => /\ indent = used[Len(used)] + 1
             /\ IF ClosesElement(tokens[i + 1], tag_name)
                  THEN LET raws == SplitLines(Concat(inner))
                           n0 == Len(out_lines)
                           last == n0 + Len(raws) + 1
                       IN  /\ Len(out_lines') = last
                           /\ SubSeq(out_lines', 1, n0) = out_lines
                           /\ \A n \in 1..Len(raws) :
                                LStrip(out_lines'[n0 + n]) = Strip(raws[n])
                           /\ out_lines'[last]
                                = Pad(used[Len(used)]) \o Strip(tokens[i + 1])
                           /\ used'[last] = used[Len(used)]
                           /\ indent' = used[Len(used)]
                           /\ i' = i + 1
                           /\ pc' = "html"
                  ELSE /\ inner' = Append(inner, tokens[i + 1])
                       /\ out_lines' = out_lines
                       /\ used' = used
                       /\ indent' = indent
                       /\ i' = i + 1
                       /\ pc' = "scan"]_vars

\* The SCRIPT element of the mixed scenario has been closed by "</Script >":
\* its interior held "<b>" and "</p>", and the depth is 1 again.
C15_Witness ==
  /\ pc = "html"
  /\ text = ScenarioOpaqueMixed
  /\ i = 8
  /\ ClosesElement(tokens[8], << "s", "c", "r", "i", "p", "t" >>)
  /\ used = << 0, 1, 2, 2, 2, 2, 1 >>
  /\ indent = 1

\* C16: when the scan of a script or style element reaches the end of the
\* tokens without a closing tag of its name, every token after the opening tag
\* is in the interior; the interior comes out line for line at the depth of the
\* block and nothing comes after it: no closing tag is emitted, the depth is
\* not decremented, no token is left to process, and the next step returns the
\* output with these lines as its last ones.
C16_Unterminated ==
  [][/\ (pc = "scan" /\ i >= Len(tokens))
          => LET raws == SplitLines(Concat(inner))
                 n0 == Len(out_lines)
                 first == Len(tokens) - Len(inner)
             IN  /\ i = Len(tokens)
                 /\ first >= 1
                 /\ TagName(Strip(tokens[first])) = tag_name
                 /\ tag_name \in OpaqueNames
                 /\ inner = SubSeq(tokens, first + 1, Len(tokens))
                 /\ \A k \in 1..Len(inner) :
                      ~ClosesElement(inner[k], tag_name)
                 /\ Len(out_lines') = n0 + Len(raws)
                 /\ SubSeq(out_lines', 1, n0) = out_lines
                 /\ \A n \in 1..Len(raws) :
                      LStrip(out_lines'[n0 + n]) = Strip(raws[n])
                 /\ indent' = indent
                 /\ indent = used[Len(used)] + 1
                 /\ i' = i
                 /\ pc' = "html"
     /\ (pc = "html" /\ i >= Len(tokens))
          => /\ pc' = "compare"
             /\ out_lines' = out_lines
             /\ indent' = indent
             /\ new' = RStrip(Join(out_lines)) \o << "\n" >>]_vars

ScenarioUnterminatedOutput ==
  << "<", "p", ">", "\n", " ", " ", "<", "s", "t", "y", "l", "e", ">",
     "\n", " ", " ", " ", " ", "x", "\n" >>

\* The pass over the unterminated scenario has returned: the interior line "x"
\* is the last line, and the depth is still 2.
C16_Witness ==
  /\ pc = "compare"
  /\ fmt = "html"
  /\ text = ScenarioUnterminated
  /\ i = Len(tokens)
  /\ Len(out_lines) = 6
  /\ indent = 2
  /\ new = ScenarioUnterminatedOutput

\* C17: while format_html's loop runs, a step with a token left takes exactly
\* that token - the index goes up by one and stays within the token count - and
\* the token is dropped as whitespace, or emitted, or added to the interior
\* being collected; the loop is left only when no token is left, so that the
\* loop ends after as many iterations as there are tokens with every token
\* taken once.
C17_SingleConsumption ==
  [][(pc \in { "html", "scan" })
       => /\ i <= Len(tokens)
          /\ i < Len(tokens)
               => /\ i' = i + 1
                  /\ pc' \in { "html", "scan" }
                  /\ tokens' = tokens
                  /\ \/ /\ pc = "html"
                        /\ Strip(tokens[i + 1]) = << >>
                        /\ out_lines' = out_lines
                     \/ /\ Strip(tokens[i + 1]) # << >>
                        /\ Len(out_lines') > Len(out_lines)
                     \/ /\ pc = "scan"
                        /\ inner' = Append(inner, tokens[i + 1])
                        /\ out_lines' = out_lines
                        /\ pc' = "scan"
          /\ i >= Len(tokens)
               => /\ i' = i
                  /\ pc' \in { "html", "compare" }
                  /\ pc = "html" => pc' = "compare"]_vars

\* The argv indices of the paths listed before the one being processed.
Earlier == 2..(arg - 1)

\* C18: main takes the files one at a time in the order of the command line;
\* when read_text cannot read the file of the call in progress, or write_text
\* cannot write it, the step leaves main by the exception: main has not
\* returned and never does, no file is read, written or reported after that
\* step, so the files listed later are untouched, and the step changes no file
\* but the one it was writing, so every file listed before, each of them read
\* and reported, keeps what its own processing left.
C18_FailureAborts ==
  [][/\ \/ reads' = reads
        \/ /\ Len(reads) + 2 <= Len(argv)
           /\ reads' = Append(reads, argv[Len(reads) + 2])
     /\ \A k \in 1..Len(writes') : \E n \in 1..Len(reads') :
          writes'[k] = reads'[n]
     /\ (AtCall /\ argv[arg] \notin DOMAIN files)
          => /\ pc' = "oserror"
             /\ files' = files
             /\ reads' = reads
             /\ writes' = writes
             /\ stdout' = stdout
     /\ (pc = "compare" /\ new # text /\ argv[arg] \in unwritable)
          => /\ pc' = "oserror"
             /\ \A q \in DOMAIN files \ { argv[arg] } : files'[q] = files[q]
             /\ \A k \in Earlier : argv[k] # argv[arg]
             /\ reads' = reads
             /\ writes' = writes
             /\ stdout' = stdout
     /\ pc' = "oserror"
          => /\ ret' = "none"
             /\ arg' = arg
             /\ Len(reads') \in { arg - 2, arg - 1 }
             /\ Len(stdout') = arg - 2
             /\ \A k \in Earlier : stdout'[k - 1][2] = argv[k]
             /\ \A k \in 1..Len(writes') : \E j \in Earlier :
                  writes'[k] = argv[j]
     /\ pc # "oserror"]_vars

\* The second of three files could not be written: the first one was rewritten
\* and reported, the third one has not been read and is as it was.
C18_Witness ==
  /\ pc = "oserror"
  /\ Len(argv) = 4
  /\ arg = 3
  /\ argv[3] \in unwritable
  /\ reads = << argv[2], argv[3] >>
  /\ writes = << argv[2] >>
  /\ files[argv[2]] # MainFiles[argv[2]]
  /\ argv[4] \in DOMAIN files
  /\ argv[4] \notin { argv[2], argv[3] }
  /\ files[argv[4]] = MainFiles[argv[4]]
  /\ Len(stdout) = 1

====
